---- MODULE Spec2Model ----
(***************************************************************************)
(* Model of the AIMe dashboard script src/app.py: the helpers fetch_json   *)
(* and to_df, the script's top-to-bottom run (sidebar, auto-refresh        *)
(* control, data load, aggregation) and the "Send to Telegram" handler.    *)
(***************************************************************************)
EXTENDS Integers, Sequences, FiniteSets, TLC

VARIABLES
    pc,          \* position of the script run
    runs,        \* number of script runs started so far
    source,      \* AM_URL, OPEN_URL, LUNCH_URL, POWER_URL (kind of each descriptor)
    token,       \* TELEGRAM_BOT_TOKEN
    chat,        \* TELEGRAM_CHAT_ID
    max_rows,    \* the "Rows to show" slider
    world,       \* what the network / file system answered to each fetch
    fetched,     \* am, openC, lunch, power
    dfs,         \* df_am, df_open, df_lunch, df_power
    df_all,      \* the global collection
    records,     \* argument of a direct to_df call
    scan_tag,    \* argument of a direct to_df call
    df,          \* result of a direct to_df call
    outcome,     \* what the send handler showed the operator
    requests,    \* delivery requests issued to the notification endpoint
    loaded       \* whether this run has executed the LOAD DATA section

vars == <<pc, runs, source, token, chat, max_rows, world, fetched, dfs, df_all,
          records, scan_tag, df, outcome, requests, loaded>>

----------------------------------------------------------------------------
(* JSON scalars as the Python values json.load gives: None, a number, a    *)
(* string. Absent marks a key the mapping does not carry.                  *)

Absent == [t |-> "absent", n |-> 0, s |-> ""]
None == [t |-> "null", n |-> 0, s |-> ""]
Num(n) == [t |-> "num", n |-> n, s |-> ""]
Str(s) == [t |-> "str", n |-> 0, s |-> s]

Keys == {"symbol", "ticker", "score", "type", "setup", "price", "current_price",
         "pct", "gain_pct", "vol", "latest_volume", "dir", "vwap", "pos",
         "position", "momo", "mom_pct", "momo15"}

\* A raw record: every key mapped to its value, or to Absent.
EmptyRec == [k \in Keys |-> Absent]

\* dict.get(k): the value, None when the key is absent.
get(r, k) == IF r[k].t = "absent" THEN None ELSE r[k]

\* Python truthiness of a scalar: None, 0 and "" are falsy.
Truthy(v) == \/ v.t = "num" /\ v.n # 0
             \/ v.t = "str" /\ v.s # ""

\* Python's `a or b`.
Or(a, b) == IF Truthy(a) THEN a ELSE b

\* The four scan tags the script passes to to_df.
ScanTags == {"08:00 Squeeze", "10:00 Confirm", "13:45 Pattern", "15:15 Power"}

\* The canonical "type" (line 93) and "momo" (line 100) of a raw record.
TypeOf_swap(r, tag) == Or(Or(get(r, "type"), get(r, "setup")), Str(tag))
TypeOf(r, tag) == Or(Or(get(r, "setup"), get(r, "type")), Str(tag))

MomoOf(r) == Or(get(r, "mom_pct"), get(r, "momo15"))

\* One appended row (lines 89-101); idx is the DataFrame index label.
Row(r, i, tag) ==
    [idx    |-> i,
     scan   |-> tag,
     symbol |-> Or(Or(get(r, "symbol"), get(r, "ticker")), Str("")),
     score  |-> get(r, "score"),
     type   |-> TypeOf(r, tag),
     price  |-> Or(get(r, "price"), get(r, "current_price")),
     pct    |-> Or(get(r, "pct"), get(r, "gain_pct")),
     vol    |-> Or(get(r, "vol"), get(r, "latest_volume")),
     dir    |-> get(r, "dir"),
     vwap   |-> get(r, "vwap"),
     pos    |-> Or(get(r, "pos"), get(r, "position")),
     momo   |-> MomoOf(r)]

\* The numeric strings of the model and the number each parses to.
ParseTable == ("0" :> 0) @@ ("1" :> 1) @@ ("2" :> 2) @@ ("3" :> 3)

\* pd.to_numeric(errors="coerce") on one value: numbers stay, numeric
\* strings parse, everything else (None, "", other text) becomes NaN.
to_numeric(v) ==
    IF v.t = "num" THEN v
    ELSE IF v.t = "str" /\ v.s \in DOMAIN ParseTable THEN Num(ParseTable[v.s])
    ELSE None

Coerce(row) ==
    [row EXCEPT !.score = to_numeric(row.score),
                !.pct = to_numeric(row.pct),
                !.vol = to_numeric(row.vol)]

\* The distinct non-null numbers of a column (the sorted categories).
Categories(rows, col) ==
    {rows[i][col].n : i \in {j \in 1..Len(rows) : rows[j][col].t = "num"}}

\* lexsort_indexer's code of one value for ascending=False, na_position="last":
\* the categories reversed, NaN after all of them.
DescCode_asc(v, cats) ==
    IF v.t # "num" THEN Cardinality(cats)
    ELSE Cardinality({c \in cats : c < v.n})
DescCode(v, cats) ==
    IF v.t # "num" THEN Cardinality(cats)
    ELSE Cardinality(cats) - Cardinality({c \in cats : c < v.n}) - 1

\* by=["score","pct","vol"]: the code triple of every row, in input order.
SortKeys(rows) ==
    LET sc == Categories(rows, "score")
        pc_ == Categories(rows, "pct")
        vc == Categories(rows, "vol")
    IN [i \in 1..Len(rows) |-> <<DescCode(rows[i].score, sc),
                                 DescCode(rows[i].pct, pc_),
                                 DescCode(rows[i].vol, vc)>>]

LexLess(a, b) ==
    \/ a[1] < b[1]
    \/ a[1] = b[1] /\ a[2] < b[2]
    \/ a[1] = b[1] /\ a[2] = b[2] /\ a[3] < b[3]

\* np.lexsort is stable: position x goes after every position already placed
\* whose key is not larger. order is a sequence of positions of the input.
InsertStable(order, x, keys) ==
    LET p == Cardinality({i \in 1..Len(order) : ~LexLess(keys[x], keys[order[i]])})
    IN SubSeq(order, 1, p) \o <<x>> \o SubSeq(order, p + 1, Len(order))

RECURSIVE lexsort(_, _)
lexsort(keys, n) ==
    IF n = 0 THEN <<>>
    ELSE InsertStable(lexsort(keys, n - 1), n, keys)

\* df.sort_values(by=[...], ascending=False, na_position="last") (line 107):
\* the rows taken in the order of the indexer.
sort_values(rows) ==
    LET keys == SortKeys(rows)
        indexer == lexsort(keys, Len(rows))
    IN [p \in 1..Len(rows) |-> rows[indexer[p]]]

----------------------------------------------------------------------------
(* A JSON document as fetch_json returns it. A list holds elements, each a *)
(* mapping or not; iterating a dict yields its keys, which are strings; a  *)
(* scalar is a single value.                                               *)

Elem(r) == [ismap |-> TRUE, f |-> r]
NonMap == [ismap |-> FALSE, f |-> EmptyRec]
JList(items) == [kind |-> "list", items |-> items, scalar |-> None]
JDict(nkeys) == [kind |-> "dict", items |-> [i \in 1..nkeys |-> NonMap], scalar |-> None]
JScalar(v) == [kind |-> "scalar", items |-> <<>>, scalar |-> v]
EmptyList == JList(<<>>)

\* `not records` (line 84).
Falsy(j) == IF j.kind = "scalar" THEN ~Truthy(j.scalar) ELSE Len(j.items) = 0

\* Whether the loop of lines 87-101 raises: iterating a number raises
\* TypeError; an element without .get (a dict key, a character of a string,
\* a non-mapping list element) raises AttributeError.
LoopRaises(j) ==
    \/ j.kind = "scalar"
    \/ \E i \in 1..Len(j.items) : ~j.items[i].ismap

Rows(j, tag) == [i \in 1..Len(j.items) |-> Coerce(Row(j.items[i].f, i - 1, tag))]

Returned(rows) == [raised |-> FALSE, rows |-> rows]
Raised == [raised |-> TRUE, rows |-> <<>>]

\* to_df with errors="raise": an unparseable ranking value aborts the call.
to_df_strict(j, tag) ==
    IF Falsy(j) THEN Returned(<<>>)
    ELSE IF LoopRaises(j) THEN Raised
    ELSE IF \E i \in 1..Len(j.items) : \E c \in {"score", "pct", "vol"} :
                LET v == Row(j.items[i].f, i - 1, tag)[c]
                IN v.t = "str" /\ v.s \notin DOMAIN ParseTable
         THEN Raised
    ELSE Returned(sort_values(Rows(j, tag)))
to_df(j, tag) ==
    IF Falsy(j) THEN Returned(<<>>)
    ELSE IF LoopRaises(j) THEN Raised
    ELSE Returned(sort_values(Rows(j, tag)))

----------------------------------------------------------------------------
(* fetch_json and the four fetches of LOAD DATA (lines 234-237).           *)

Feeds == {"am", "openC", "lunch", "power"}

NoSource == [f \in Feeds |-> ""]
NoFetched == [f \in Feeds |-> EmptyList]
NoDfs == [f \in Feeds |-> Returned(<<>>)]

\* A source descriptor: empty, an http(s) URL, or a local path.
SourceKinds == {"", "url", "path"}

\* What the outside world answers to one fetch: the request raises or
\* responds with a status and a body; the file is missing or has content;
\* the content is valid JSON (doc) or not.
Answer(mode, status, valid, doc) ==
    [mode |-> mode, status |-> status, valid |-> valid, doc |-> doc]
Unasked == Answer("unasked", 0, FALSE, EmptyList)
NoIO == Answer("no_io", 0, FALSE, EmptyList)
NoWorld == [f \in Feeds |-> Unasked]

\* Documents a feed can hold.
OneRecord == [EmptyRec EXCEPT !["symbol"] = Str("x"), !["score"] = Num(1)]
FeedDocs == {JList(<<Elem(OneRecord)>>), JDict(1), JScalar(Num(1))}

Answers(src) ==
    IF src = "" THEN {NoIO}
    ELSE IF src = "url"
    THEN {Answer("request_fails", 0, FALSE, EmptyList),
          Answer("responded", 404, TRUE, JDict(1)),
          Answer("responded", 200, FALSE, EmptyList)}
         \cup {Answer("responded", 200, TRUE, d) : d \in FeedDocs}
    ELSE {Answer("no_file", 0, FALSE, EmptyList),
          Answer("file", 0, FALSE, EmptyList)}
         \cup {Answer("file", 0, TRUE, d) : d \in FeedDocs}

\* The body of the try block (lines 69-78): a value returned or an exception.
TryBody(src, w) ==
    IF src = "url"
    THEN IF w.mode = "request_fails" THEN [raised |-> TRUE, value |-> EmptyList]
         ELSE IF w.status # 200 THEN [raised |-> FALSE, value |-> EmptyList]
         ELSE IF ~w.valid THEN [raised |-> TRUE, value |-> EmptyList]
         ELSE [raised |-> FALSE, value |-> w.doc]
    ELSE IF w.mode = "file"
         THEN IF ~w.valid THEN [raised |-> TRUE, value |-> EmptyList]
              ELSE [raised |-> FALSE, value |-> w.doc]
         ELSE [raised |-> FALSE, value |-> EmptyList]

fetch_json_notry(src, w) ==
    IF src = "" THEN [raised |-> FALSE, value |-> EmptyList]
    ELSE TryBody(src, w)
fetch_json(src, w) ==
    IF src = "" THEN [raised |-> FALSE, value |-> EmptyList]
    ELSE IF TryBody(src, w).raised THEN [raised |-> FALSE, value |-> EmptyList]
    ELSE TryBody(src, w)

InitFetch ==
    /\ pc = "fetch_am"
    /\ source \in [Feeds -> SourceKinds]
    /\ world = NoWorld
    /\ fetched = NoFetched
    /\ runs = 0 /\ token = "" /\ chat = "" /\ max_rows = 0
    /\ dfs = NoDfs /\ df_all = <<>>
    /\ records = EmptyList /\ scan_tag = "" /\ df = Returned(<<>>)
    /\ outcome = "none" /\ requests = 0 /\ loaded = FALSE

\* One of lines 234-237: f = fetch_json(F_URL).
Fetch(f, at, next) ==
    /\ pc = at
    /\ \E w \in Answers(source[f]) :
        LET res == fetch_json(source[f], w)
        IN /\ world' = [world EXCEPT ![f] = w]
           /\ IF res.raised
              THEN pc' = "raised" /\ fetched' = fetched
              ELSE pc' = next /\ fetched' = [fetched EXCEPT ![f] = res.value]
    /\ UNCHANGED <<runs, source, token, chat, max_rows, dfs, df_all,
                   records, scan_tag, df, outcome, requests, loaded>>

FetchAm == Fetch("am", "fetch_am", "fetch_open")
FetchOpen == Fetch("openC", "fetch_open", "fetch_lunch")
FetchLunch == Fetch("lunch", "fetch_lunch", "fetch_power")
FetchPower == Fetch("power", "fetch_power", "normalize_am")

NextFetch == FetchAm \/ FetchOpen \/ FetchLunch \/ FetchPower

SpecFetch == InitFetch /\ [][NextFetch]_vars

\* A fetch that met one of the failure modes.
Failed(src, w) ==
    \/ src = ""
    \/ w.mode \in {"request_fails", "no_file"}
    \/ w.mode = "responded" /\ w.status # 200
    \/ ~w.valid

\* C6: no fetch raises, and each source's result is decided by its own
\* descriptor and answer alone: the empty result on every failure mode, the
\* document otherwise, whatever happened to the other sources.
C6_FetchNeverRaises ==
    /\ pc # "raised"
    /\ \A f \in Feeds :
        world[f] # Unasked =>
            fetched[f] = IF Failed(source[f], world[f]) THEN EmptyList ELSE world[f].doc

\* C6 witness: all four fetched; the AM request raised, the open body was
\* not JSON, the lunch file was read, the power file does not exist.
C6_Witness ==
    /\ pc = "normalize_am"
    /\ world["am"].mode = "request_fails"
    /\ world["openC"].mode = "responded" /\ world["openC"].status = 200
        /\ ~world["openC"].valid
    /\ world["lunch"].mode = "file" /\ fetched["lunch"] = JList(<<Elem(OneRecord)>>)
    /\ world["power"].mode = "no_file"

----------------------------------------------------------------------------
(* Inputs of a direct to_df call.                                          *)

MaxLen == 3

SeqsUpTo(S, n) == UNION {[1..m -> S] : m \in 0..n}

\* Records that carry only the three ranking keys: score and pct missing or
\* one of two numbers, vol one of two numbers.
SortVals == {Absent, Num(1), Num(2)}
SortRecords ==
    {[EmptyRec EXCEPT !["score"] = a, !["pct"] = b, !["vol"] = c] :
        a \in SortVals, b \in SortVals, c \in SortVals \ {Absent}}

\* Records that carry the keys of one field's fallback chain.
FieldVals == {Absent, None, Num(0), Num(1), Str(""), Str("1"), Str("x")}
KeyGroups == {{"symbol", "ticker"}, {"type", "setup"}, {"price", "current_price"},
              {"pct", "gain_pct"}, {"vol", "latest_volume"}, {"pos", "position"},
              {"momo", "mom_pct", "momo15"}, {"score"}, {"dir", "vwap"}}
FieldRecords ==
    UNION {{[k \in Keys |-> IF k \in g THEN h[k] ELSE Absent] : h \in [g -> FieldVals]} :
            g \in KeyGroups}

SortLists == {JList(items) : items \in SeqsUpTo({Elem(r) : r \in SortRecords}, MaxLen)}
FieldLists == {JList(<<Elem(r)>>) : r \in FieldRecords}

\* Two-record lists whose first record carries a ranking field in any form
\* (missing, null, number, numeric or other text).
CoerceRecords ==
    {r \in FieldRecords : \A k \in Keys \ {"score", "pct", "gain_pct", "vol", "latest_volume"} :
                              r[k] = Absent}
CoerceLists ==
    {JList(<<Elem(a), Elem(b)>>) : a \in CoerceRecords, b \in SortRecords \cup CoerceRecords}

\* The (records, scan_tag) pairs: ranking inputs under the AM tag, field
\* inputs under each of the four tags.
ToDfCalls == ((SortLists \cup CoerceLists) \X {"08:00 Squeeze"}) \cup (FieldLists \X ScanTags)

InitToDf ==
    /\ \E c \in ToDfCalls : records = c[1] /\ scan_tag = c[2]
    /\ df = Returned(<<>>)
    /\ pc = "call"
    /\ runs = 0 /\ source = NoSource /\ token = "" /\ chat = "" /\ max_rows = 0
    /\ world = NoWorld /\ fetched = NoFetched /\ dfs = NoDfs
    /\ df_all = <<>> /\ outcome = "none" /\ requests = 0 /\ loaded = FALSE

\* df = to_df(records, scan_tag)
ToDfCall ==
    /\ pc = "call"
    /\ df' = to_df(records, scan_tag)
    /\ pc' = IF df'.raised THEN "raised" ELSE "returned"
    /\ UNCHANGED <<runs, source, token, chat, max_rows, world, fetched, dfs, df_all,
                   records, scan_tag, outcome, requests, loaded>>

NextToDf == ToDfCall

SpecToDf == InitToDf /\ [][NextToDf]_vars

----------------------------------------------------------------------------
(* Properties of to_df, on the state after a direct call.                  *)

\* The raw record a returned row was built from (its index label).
RawOf(row) == records.items[row.idx + 1].f

\* C1: to_df returns for every list of mappings, with one canonical record
\* per input record: the same length, every index label exactly once, every
\* scan equal to the scan tag.
C1_ToDfKeepsEveryRecord ==
    pc # "call" =>
        /\ pc = "returned"
        /\ Len(df.rows) = Len(records.items)
        /\ {df.rows[i].idx : i \in 1..Len(df.rows)} = 0..(Len(records.items) - 1)
        /\ \A i \in 1..Len(df.rows) : df.rows[i].scan = scan_tag

\* C1 witness: a two-record call returned although one record has an
\* unparseable score and the other has no score at all.
C1_Witness ==
    /\ pc = "returned"
    /\ Len(df.rows) = 2
    /\ \E i \in 1..2 : RawOf(df.rows[i])["score"] = Str("x")
    /\ \E i \in 1..2 : RawOf(df.rows[i])["score"] = Absent

\* a is ranked strictly before b at one comparison step: a is a number and
\* b is null or smaller.
Ahead(a, b) == a.t = "num" /\ (b.t # "num" \/ a.n > b.n)
\* a and b tie at one comparison step.
Tie(a, b) == (a.t # "num" /\ b.t # "num") \/ (a.t = "num" /\ b.t = "num" /\ a.n = b.n)

\* C2: in the returned collection a record with the larger score comes
\* first, equal scores are ordered by larger pct, then by larger vol, null
\* after every number at each step, and records equal on all three keys keep
\* their input order.
C2_RankedOrder ==
    pc = "returned" =>
        \A i \in 1..Len(df.rows) : \A j \in 1..Len(df.rows) :
            LET A == df.rows[i]
                B == df.rows[j]
            IN /\ Ahead(A.score, B.score) => i < j
               /\ Tie(A.score, B.score) /\ Ahead(A.pct, B.pct) => i < j
               /\ Tie(A.score, B.score) /\ Tie(A.pct, B.pct) /\ Ahead(A.vol, B.vol) => i < j
               /\ Tie(A.score, B.score) /\ Tie(A.pct, B.pct) /\ Tie(A.vol, B.vol)
                    /\ A.idx < B.idx => i < j

\* C2 witness: three rows with null scores where the pct tie-break moved a
\* later record first and two records equal on all keys kept their input
\* order.
C2_Witness ==
    /\ pc = "returned"
    /\ Len(df.rows) = 3
    /\ \A i \in 1..3 : df.rows[i].score = None /\ df.rows[i].vol = Num(1)
    /\ df.rows[1].idx = 1 /\ df.rows[2].idx = 0 /\ df.rows[3].idx = 2
    /\ df.rows[1].pct = Num(2) /\ df.rows[2].pct = Num(1) /\ df.rows[3].pct = Num(1)

\* C3 as stated: the raw type value first, setup only without a type, the
\* scan tag only without both.
C3_TypeBeforeSetup ==
    pc = "returned" =>
        \A i \in 1..Len(df.rows) :
            LET r == RawOf(df.rows[i])
            IN df.rows[i].type =
                 IF Truthy(r["type"]) THEN r["type"]
                 ELSE IF Truthy(r["setup"]) THEN r["setup"]
                 ELSE Str(scan_tag)

\* C3 amended: the raw setup value first when it is non-empty, the raw type
\* value only when setup is absent or empty, the scan tag only when both are.
C3_SetupBeforeType ==
    pc = "returned" =>
        \A i \in 1..Len(df.rows) :
            LET r == RawOf(df.rows[i])
            IN /\ Truthy(r["setup"]) => df.rows[i].type = r["setup"]
               /\ ~Truthy(r["setup"]) /\ Truthy(r["type"]) => df.rows[i].type = r["type"]
               /\ ~Truthy(r["setup"]) /\ ~Truthy(r["type"]) => df.rows[i].type = Str(scan_tag)

\* C3 witness: a record carrying both a type and a different setup came out
\* with the setup value.
C3_Witness ==
    /\ pc = "returned"
    /\ Len(df.rows) = 1
    /\ RawOf(df.rows[1])["type"] = Str("x")
    /\ RawOf(df.rows[1])["setup"] = Str("1")
    /\ df.rows[1].type = Str("1")

\* A key the record carries with a non-null value.
Carries(r, k) == r[k].t \in {"num", "str"}

\* C9: a primary key present with any non-null value, 0 and "" included,
\* gives the canonical value (after numeric coercion for pct and vol); the
\* fallback key is not consulted.
C9_PrimaryKeyWins ==
    pc = "returned" =>
        \A i \in 1..Len(df.rows) :
            LET r == RawOf(df.rows[i])
            IN /\ Carries(r, "symbol") => df.rows[i].symbol = r["symbol"]
               /\ Carries(r, "price") => df.rows[i].price = r["price"]
               /\ Carries(r, "pos") => df.rows[i].pos = r["pos"]
               /\ Carries(r, "pct") => df.rows[i].pct = to_numeric(r["pct"])
               /\ Carries(r, "vol") => df.rows[i].vol = to_numeric(r["vol"])

\* C10: a raw record that carries a momo value has it as its canonical momo.
C10_MomoKeyRead ==
    pc = "returned" =>
        \A i \in 1..Len(df.rows) :
            LET r == RawOf(df.rows[i])
            IN Carries(r, "momo") => df.rows[i].momo = r["momo"]

----------------------------------------------------------------------------
(* The rest of LOAD DATA (lines 239-245) and the send handler (270-294),   *)
(* from the four values fetch_json returned.                               *)

ShortLen == 2
LongLen == 13

\* The "Rows to show" slider (line 185): least, default and largest value.
MinRows == 50
DefaultRows == 200
MaxRowsLimit == 300
RowChoices == {MinRows, DefaultRows, MaxRowsLimit}

\* The i-th record of a generated feed, in the bot's ticker/latest_volume
\* shape; records of one feed differ in their volume.
GenRecord(i) ==
    [EmptyRec EXCEPT !["ticker"] = Str("x"), !["score"] = Num(i % 3),
                     !["latest_volume"] = Num(i)]
GenList(n) == JList([i \in 1..n |-> Elem(GenRecord(i))])

\* What fetch_json can return for one source: the empty result, arrays of
\* mappings, a non-empty object, an array with a non-mapping element, a scalar.
CycleDocs == {EmptyList, GenList(ShortLen), GenList(LongLen), JDict(1),
              JList(<<Elem(GenRecord(1)), NonMap>>), JScalar(Num(1))}

Credentials == {"", "set"}

FeedTag == [am |-> "08:00 Squeeze", openC |-> "10:00 Confirm",
            lunch |-> "13:45 Pattern", power |-> "15:15 Power"]

InitCycle ==
    /\ pc = "normalize_am"
    /\ fetched \in [Feeds -> CycleDocs]
    /\ max_rows \in RowChoices
    /\ token \in Credentials /\ chat \in Credentials
    /\ dfs = NoDfs /\ df_all = <<>>
    /\ runs = 0 /\ source = NoSource /\ world = NoWorld
    /\ records = EmptyList /\ scan_tag = "" /\ df = Returned(<<>>)
    /\ outcome = "none" /\ requests = 0 /\ loaded = FALSE

\* One of lines 239-242: df_f = to_df(f, tag). An exception of to_df is not
\* caught anywhere: the run ends there.
Normalize(f, at, next) ==
    /\ pc = at
    /\ LET res == to_df(fetched[f], FeedTag[f])
       IN IF res.raised
          THEN pc' = "raised" /\ dfs' = dfs
          ELSE pc' = next /\ dfs' = [dfs EXCEPT ![f] = res]
    /\ UNCHANGED <<runs, source, token, chat, max_rows, world, fetched, df_all,
                   records, scan_tag, df, outcome, requests, loaded>>

NormalizeAm == Normalize("am", "normalize_am", "normalize_open")
NormalizeOpen == Normalize("openC", "normalize_open", "normalize_lunch")
NormalizeLunch == Normalize("lunch", "normalize_lunch", "normalize_power")
NormalizePower == Normalize("power", "normalize_power", "aggregate")

\* pd.concat(frames, ignore_index=True): the rows in order, relabelled 0..n-1.
concat(frames) ==
    LET all == frames[1] \o frames[2] \o frames[3] \o frames[4]
    IN [p \in 1..Len(all) |-> [all[p] EXCEPT !.idx = p - 1]]

\* df.head(n), n >= 0.
head(rows, n) == SubSeq(rows, 1, IF n < Len(rows) THEN n ELSE Len(rows))

\* Lines 244-245, and a variant that re-ranks across the sources.
Aggregated_resorted(frames, n) == head(sort_values(concat(frames)), n)
Aggregated(frames, n) == head(concat(frames), n)

Aggregate ==
    /\ pc = "aggregate"
    /\ df_all' = Aggregated(<<dfs["am"].rows, dfs["openC"].rows,
                              dfs["lunch"].rows, dfs["power"].rows>>, max_rows)
    /\ loaded' = TRUE
    /\ pc' = "tabs"
    /\ UNCHANGED <<runs, source, token, chat, max_rows, world, fetched, dfs,
                   records, scan_tag, df, outcome, requests>>

\* What the notification endpoint does with a request.
TelegramAnswers == {"200", "other_status", "exception"}

\* The body of the send handler (lines 271-294): what the operator is shown
\* and how many requests went out. The variant skips the empty check.
SendHandler_noempty(tok, ch, all, resp) ==
    IF tok = "" \/ ch = "" THEN [shown |-> "error_missing_credentials", sent |-> 0]
    ELSE [shown |-> IF resp = "200" THEN "success"
                    ELSE IF resp = "other_status" THEN "error_status"
                    ELSE "error_send_failed",
          sent |-> 1]
SendHandler(tok, ch, all, resp) ==
    IF tok = "" \/ ch = "" THEN [shown |-> "error_missing_credentials", sent |-> 0]
    ELSE IF Len(all) = 0 THEN [shown |-> "warning_nothing_to_send", sent |-> 0]
    ELSE [shown |-> IF resp = "200" THEN "success"
                    ELSE IF resp = "other_status" THEN "error_status"
                    ELSE "error_send_failed",
          sent |-> 1]

\* The operator pressed "Send to Telegram" for this run (line 270).
SendClicked ==
    /\ pc = "tabs"
    /\ \E resp \in TelegramAnswers :
        LET h == SendHandler(token, chat, df_all, resp)
        IN outcome' = h.shown /\ requests' = requests + h.sent
    /\ pc' = "done"
    /\ UNCHANGED <<runs, source, token, chat, max_rows, world, fetched, dfs, df_all,
                   records, scan_tag, df, loaded>>

\* The button was not pressed: the run renders the tabs and ends.
SendNotClicked ==
    /\ pc = "tabs"
    /\ pc' = "done"
    /\ UNCHANGED <<runs, source, token, chat, max_rows, world, fetched, dfs, df_all,
                   records, scan_tag, df, outcome, requests, loaded>>

NextCycle ==
    \/ NormalizeAm \/ NormalizeOpen \/ NormalizeLunch \/ NormalizePower
    \/ Aggregate \/ SendClicked \/ SendNotClicked

SpecCycle == InitCycle /\ [][NextCycle]_vars

\* A row without its index label.
Content(row) == [row EXCEPT !.idx = 0]

\* The p-th row of the four ranked collections laid end to end.
NthOfFour(p) ==
    LET a == dfs["am"].rows
        o == dfs["openC"].rows
        l == dfs["lunch"].rows
        w == dfs["power"].rows
    IN IF p <= Len(a) THEN a[p]
       ELSE IF p <= Len(a) + Len(o) THEN o[p - Len(a)]
       ELSE IF p <= Len(a) + Len(o) + Len(l) THEN l[p - Len(a) - Len(o)]
       ELSE w[p - Len(a) - Len(o) - Len(l)]

TotalRows ==
    Len(dfs["am"].rows) + Len(dfs["openC"].rows) + Len(dfs["lunch"].rows)
        + Len(dfs["power"].rows)

\* C4: once built, df_all holds min(total, max_rows) rows, and its p-th row
\* is the p-th row of AM, Open, Lunch, Power laid end to end in that order.
C4_ConcatThenTruncate ==
    loaded =>
        /\ Len(df_all) = IF TotalRows < max_rows THEN TotalRows ELSE max_rows
        /\ \A p \in 1..Len(df_all) :
            /\ Content(df_all[p]) = Content(NthOfFour(p))
            /\ df_all[p].idx = p - 1

\* C4 witness: four full feeds give more rows than the slider allows, and
\* df_all was cut to max_rows.
C4_Witness ==
    /\ loaded
    /\ \A f \in Feeds : Len(dfs[f].rows) = LongLen
    /\ TotalRows > max_rows
    /\ Len(df_all) = max_rows

\* C5 as stated: a send with an empty collection shows the "nothing to send"
\* warning and issues no request, whatever the credentials.
C5_EmptySendWarns ==
    (outcome # "none" /\ Len(df_all) = 0) =>
        outcome = "warning_nothing_to_send" /\ requests = 0

\* C5 amended: a send with an empty collection issues no request whatever
\* the credentials; it shows the "nothing to send" warning when both
\* credentials are set and the missing-credentials error otherwise.
C5_EmptySendNoRequest ==
    (outcome # "none" /\ Len(df_all) = 0) =>
        /\ requests = 0
        /\ (token # "" /\ chat # "") => outcome = "warning_nothing_to_send"
        /\ (token = "" \/ chat = "") => outcome = "error_missing_credentials"

\* C5 witness: the send was pressed with both credentials set and nothing
\* loaded, and the warning was shown.
C5_Witness ==
    /\ pc = "done"
    /\ token # "" /\ chat # ""
    /\ Len(df_all) = 0
    /\ outcome = "warning_nothing_to_send"
    /\ requests = 0

\* C7: whatever the four sources delivered, the run gets through the four
\* normalizations and the aggregation without an uncaught error.
C7_CycleNeverAborts == pc # "raised"

----------------------------------------------------------------------------
(* The script run from its first line to the data load: the sidebar        *)
(* (lines 166-186) and the auto-refresh control (lines 191-204).           *)

MaxRuns == 2

\* Line 199.
refresh_rate == 300

Init ==
    /\ pc = "start"
    /\ runs = 1
    /\ source = NoSource /\ token = "" /\ chat = "" /\ max_rows = DefaultRows
    /\ world = NoWorld /\ fetched = NoFetched /\ dfs = NoDfs /\ df_all = <<>>
    /\ records = EmptyList /\ scan_tag = "" /\ df = Returned(<<>>)
    /\ outcome = "none" /\ requests = 0 /\ loaded = FALSE

\* Lines 166-186: the run reads the configuration the operator has entered.
Sidebar ==
    /\ pc = "start"
    /\ source' \in [Feeds -> SourceKinds]
    /\ token' \in Credentials /\ chat' \in Credentials
    /\ max_rows' \in RowChoices
    /\ loaded' = FALSE
    /\ pc' = "refresh_button"
    /\ UNCHANGED <<runs, world, fetched, dfs, df_all, records, scan_tag, df,
                   outcome, requests>>

\* Line 194: this run was started by a press of "Refresh Dashboard".
RefreshClicked ==
    /\ pc = "refresh_button"
    /\ pc' = "query_params_button"
    /\ UNCHANGED <<runs, source, token, chat, max_rows, world, fetched, dfs, df_all,
                   records, scan_tag, df, outcome, requests, loaded>>

\* Line 194: the button was not pressed.
RefreshNotClicked ==
    /\ pc = "refresh_button"
    /\ pc' = "auto_refresh"
    /\ UNCHANGED <<runs, source, token, chat, max_rows, world, fetched, dfs, df_all,
                   records, scan_tag, df, outcome, requests, loaded>>

\* Lines 199-202: with refresh_rate > 0 the run shows the caption and sleeps
\* refresh_rate seconds; only with refresh_rate <= 0 would it go on to the
\* header and the data load.
AutoRefresh ==
    /\ pc = "auto_refresh"
    /\ pc' = IF refresh_rate > 0 THEN "query_params_timer" ELSE "fetch_am"
    /\ UNCHANGED <<runs, source, token, chat, max_rows, world, fetched, dfs, df_all,
                   records, scan_tag, df, outcome, requests, loaded>>

\* Lines 195 and 203: st.query_params(ts=...) raises (the attribute is not
\* callable, or missing): the exception is uncaught and the run ends.
QueryParamsRaises ==
    /\ pc \in {"query_params_button", "query_params_timer"}
    /\ pc' = "stopped"
    /\ UNCHANGED <<runs, source, token, chat, max_rows, world, fetched, dfs, df_all,
                   records, scan_tag, df, outcome, requests, loaded>>

\* Lines 195 and 203: the call returns.
QueryParamsReturns ==
    /\ pc \in {"query_params_button", "query_params_timer"}
    /\ pc' = IF pc = "query_params_button" THEN "rerun_button" ELSE "rerun_timer"
    /\ UNCHANGED <<runs, source, token, chat, max_rows, world, fetched, dfs, df_all,
                   records, scan_tag, df, outcome, requests, loaded>>

\* Lines 196 and 204: st.rerun() abandons this run and starts the script
\* again, its variables unset until the sidebar runs.
Rerun ==
    /\ pc \in {"rerun_button", "rerun_timer"}
    /\ runs < MaxRuns
    /\ runs' = runs + 1
    /\ pc' = "start"
    /\ source' = NoSource /\ token' = "" /\ chat' = "" /\ max_rows' = DefaultRows
    /\ loaded' = FALSE
    /\ UNCHANGED <<world, fetched, dfs, df_all, records, scan_tag, df, outcome, requests>>

\* After a run has ended, any use of a widget starts the script again.
OperatorInteracts ==
    /\ pc = "stopped"
    /\ runs < MaxRuns
    /\ runs' = runs + 1
    /\ pc' = "start"
    /\ source' = NoSource /\ token' = "" /\ chat' = "" /\ max_rows' = DefaultRows
    /\ loaded' = FALSE
    /\ UNCHANGED <<world, fetched, dfs, df_all, records, scan_tag, df, outcome, requests>>

Next ==
    \/ Sidebar \/ RefreshClicked \/ RefreshNotClicked \/ AutoRefresh
    \/ QueryParamsRaises \/ QueryParamsReturns \/ Rerun \/ OperatorInteracts

Spec == Init /\ [][Next]_vars

\* C8: a run ends, or the next run starts, only after the run has performed
\* the fetches, the normalizations and the aggregation into df_all.
C8_LoadBeforeRunEnds ==
    [][(pc' = "stopped" \/ runs' > runs) => loaded]_vars

====
